---- MODULE Spec2Model ----
(***************************************************************************)
(* Verification model of the vanilla UI primitives: the shared core        *)
(* (packages/vanilla/src/core: EventTarget, StateManager, Component) and   *)
(* the widgets built on it.                                                *)
(*                                                                         *)
(* Part 1 (SpecHub)    : EventTarget, the listener registry and its        *)
(*                       synchronous, re-entrant dispatch.                 *)
(* Part 2 (SpecCell)   : StateManager, the controllable value cell.        *)
(* Part 3 (SpecWidget) : Component and the widgets Label, Checkbox,        *)
(*                       Switch, AlertDialog and RadioGroup.               *)
(***************************************************************************)
EXTENDS Integers, Sequences, FiniteSets, TLC

(***************************************************************************)
(* Bounds of the model.                                                    *)
(***************************************************************************)
MaxCount == 2       \* history counters saturate at this value
MaxOnce == 1        \* once() registrations per behaviour of the hub
MaxListeners == 2   \* listeners one hub holds at a time (all types)
ReemitBudget == 1   \* nested emits the re-emitting listener performs
MaxSubs == 2        \* subscribe() calls per behaviour of the cell
MaxTimers == 3      \* setTimeout calls per behaviour of the hover card

(***************************************************************************)
(* State.  Each part has its own variables; a step of one part leaves the  *)
(* others alone.                                                           *)
(***************************************************************************)
\* Part 1, the EventTarget under test
VARIABLES
    listeners,   \* EventTarget.listeners: type -> Set of listeners
    stack,       \* the call stack of the running dispatch (top = last)
    nextUid,     \* number of wrappedListener closures created so far
    reemitLeft,  \* nested emits the listener "r" will still perform
    escaped,     \* an exception reached the caller of emit()
    onceHist,    \* per once() registration: what happened to it
    spyReg       \* per type: the on() and off() calls that named the spy

\* Part 2, the StateManager under test
VARIABLES
    cell,        \* the StateManager: value, isControlled, onChange
    subs,        \* its 'change' listeners, the closures subscribe() created
    nextSub,     \* closures created so far
    last         \* the last operation: its name, argument and effects

\* Part 3, the widget under test and the page around it
VARIABLES
    build,       \* class-field semantics of the compiled output
    w,           \* the widget instance: its fields
    wcell,       \* the StateManager the widget created
    native,      \* listeners attached to DOM nodes: [target, event, handler]
    tracked,     \* Component.listeners: [event, handler]
    whub,        \* Component.eventTarget: event -> Set of listeners
    attrs,       \* attributes of the DOM nodes the widget works on
    cbLog,       \* arguments the options' change callback was called with
    spy,         \* invocations of the listener added from outside
    obs          \* what the calls made so far did

\* Part 4, a page with a hover card and two alert dialogs
VARIABLES
    hc,          \* the HoverCard: its fields and the timers it has pending
    dlg,         \* the AlertDialogs: "closed", "open" or "destroyed"
    body,        \* document.body.style.overflow
    before       \* history: body's overflow when the dialog last opened

\* Part 5, an accordion and a slider, at the level of their handlers
VARIABLES
    acc,         \* the Accordion: type, collapsible, the open items, last call
    sl           \* the Slider: min, max, step, the thumb values, drag state

hubVars == <<listeners, stack, nextUid, reemitLeft, escaped, onceHist, spyReg>>

cellVars == <<cell, subs, nextSub, last>>

widgetVars == <<build, w, wcell, native, tracked, whub, attrs, cbLog, spy, obs>>

pageVars == <<hc, dlg, body, before>>

controlVars == <<acc, sl>>

vars == <<hubVars, cellVars, widgetVars, pageVars, controlVars>>

HubOnly == UNCHANGED <<cellVars, widgetVars, pageVars, controlVars>>

CellOnly == UNCHANGED <<hubVars, widgetVars, pageVars, controlVars>>

WidgetOnly == UNCHANGED <<hubVars, cellVars, pageVars, controlVars>>

PageOnly == UNCHANGED <<hubVars, cellVars, widgetVars, controlVars>>

ControlsOnly == UNCHANGED <<hubVars, cellVars, widgetVars, pageVars>>

(***************************************************************************)
(* PART 1: EventTarget                                                     *)
(*                                                                         *)
(* listeners : Map<string, Set<EventListener>>.  A JavaScript Set iterates *)
(* in insertion order over the live collection: an entry deleted during a  *)
(* forEach leaves a hole the iteration skips, an entry added during it is  *)
(* appended and visited.  A Set is therefore a sequence with holes; holes  *)
(* are dropped when no dispatch is running.                                *)
(*                                                                         *)
(* A listener is [fn, once]: once = 0 is the function fn itself, once = n  *)
(* > 0 is the n-th closure wrappedListener that once() created around fn.  *)
(***************************************************************************)
Undefined == "undefined"

Null == "null"

Types == {"x", "y"}

\* What a caller hands to emit as detail: nothing, or the object {a: 1}
Payloads == {Undefined, "{a:1}"}

\* new CustomEvent(type, { detail }): a detail member that is undefined
\* counts as absent, and the event's detail is then null
CustomEvent(type, detail) ==
    [type |-> type, detail |-> IF detail = Undefined THEN Null ELSE detail]

\* The listener functions of the environment, by what their body does:
\* "f" returns normally, "t" throws, "r" emits the event it received again
\* (while it has budget left) and then returns.
Fns == {"f", "t", "r"}

\* The mock function of a test: it returns normally, and the on() and off()
\* calls that name it are remembered
Spy == "spy"

Hole == [fn |-> "hole", once |-> 0]

Plain(fn) == [fn |-> fn, once |-> 0]

Wrapped(fn, uid) == [fn |-> fn, once |-> uid]

SetHas(s, e) == \E i \in 1..Len(s) : s[i] = e

\* A list in place of the Set: every add appends
ListAdd(s, e) == Append(s, e)

SetAdd(s, e) == IF SetHas(s, e) THEN s ELSE Append(s, e)

SetDelete(s, e) == [i \in 1..Len(s) |-> IF s[i] = e THEN Hole ELSE s[i]]

IsEntry(e) == e # Hole

SetCompact(s) == SelectSeq(s, IsEntry)

SetElems(s) == {s[i] : i \in 1..Len(s)} \ {Hole}

NoOnce == [type |-> "none", fn |-> "none", emitsSince |-> 0, via |-> 0, cleared |-> FALSE]

HubInit ==
    /\ listeners = [t \in Types |-> << >>]
    /\ stack = << >>
    /\ nextUid = 0
    /\ reemitLeft = ReemitBudget
    /\ escaped = FALSE
    /\ onceHist = [u \in 1..MaxOnce |-> NoOnce]
    /\ spyReg = [t \in Types |-> "never"]

\* EventTarget.addEventListener
addEventListener(ls, type, l) == [ls EXCEPT ![type] = SetAdd(@, l)]

\* removeEventListener that deletes nothing
KeepListener(ls, type, l) == ls

\* EventTarget.removeEventListener
removeEventListener(ls, type, l) == [ls EXCEPT ![type] = SetDelete(@, l)]

\* EventTarget.removeAllListeners(type)
removeAllListeners(ls, type) == [ls EXCEPT ![type] = << >>]

\* EventTarget.listenerCount
listenerCount(ls, type) == Cardinality(SetElems(ls[type]))

RECURSIVE SumCounts(_, _)
SumCounts(ls, ts) ==
    IF ts = {} THEN 0
    ELSE LET t == CHOOSE x \in ts : TRUE
         IN  listenerCount(ls, t) + SumCounts(ls, ts \ {t})

HubSize(ls) == SumCounts(ls, Types)

Compacted(ls) == [t \in DOMAIN ls |-> SetCompact(ls[t])]

Idle == stack = << >>

\* The frame of dispatchEvent(event), entered from emit(type, payload);
\* calls lists the listeners called so far
DispatchFrame(type, ls, payload) ==
    [k |-> "dispatch", type |-> type, idx |-> 1, entry |-> Hole,
     start |-> SetElems(ls[type]), invoked |-> {}, threw |-> FALSE,
     payload |-> payload, event |-> CustomEvent(type, payload), calls |-> << >>]

AfterFrame(type, e) ==
    [k |-> "after", type |-> type, idx |-> 0, entry |-> e,
     start |-> {}, invoked |-> {}, threw |-> FALSE,
     payload |-> Undefined, event |-> CustomEvent(type, Undefined), calls |-> << >>]

Top == stack[Len(stack)]

Pop(s) == SubSeq(s, 1, Len(s) - 1)

SetTop(s, f) == [s EXCEPT ![Len(s)] = f]

----
\* on(type, fn): a top-level call of addEventListener
On(type, fn) ==
    /\ HubOnly
    /\ Idle
    /\ HubSize(listeners) < MaxListeners
    /\ listeners' = addEventListener(listeners, type, Plain(fn))
    /\ spyReg' = IF fn # Spy THEN spyReg
                 ELSE [spyReg EXCEPT ![type] =
                          IF SetHas(listeners[type], Plain(fn)) THEN "twice" ELSE "on"]
    /\ UNCHANGED <<stack, nextUid, reemitLeft, escaped, onceHist>>

\* off(type, fn): a top-level call of removeEventListener
Off(type, fn) ==
    /\ HubOnly
    /\ Idle
    /\ listeners' = Compacted(removeEventListener(listeners, type, Plain(fn)))
    /\ spyReg' = IF fn # Spy \/ spyReg[type] = "never" THEN spyReg
                 ELSE [spyReg EXCEPT ![type] = "off"]
    /\ UNCHANGED <<stack, nextUid, reemitLeft, escaped, onceHist>>

\* EventTarget.once: creates a fresh closure and registers it
once(type, fn) ==
    /\ HubOnly
    /\ Idle
    /\ nextUid < MaxOnce
    /\ HubSize(listeners) < MaxListeners
    /\ nextUid' = nextUid + 1
    /\ listeners' = addEventListener(listeners, type, Wrapped(fn, nextUid + 1))
    /\ onceHist' = [onceHist EXCEPT ![nextUid + 1] =
                       [type |-> type, fn |-> fn, emitsSince |-> 0, via |-> 0, cleared |-> FALSE]]
    /\ UNCHANGED <<stack, reemitLeft, escaped, spyReg>>

\* clear(type): a top-level call of removeAllListeners(type)
Clear(type) ==
    /\ HubOnly
    /\ Idle
    /\ listeners[type] # << >>
    /\ listeners' = removeAllListeners(listeners, type)
    /\ onceHist' = [u \in 1..MaxOnce |->
                       IF onceHist[u].type = type /\ SetHas(listeners[type], Wrapped(onceHist[u].fn, u))
                       THEN [NoOnce EXCEPT !.cleared = TRUE]
                       ELSE onceHist[u]]
    /\ spyReg' = [spyReg EXCEPT ![type] = "never"]
    /\ UNCHANGED <<stack, nextUid, reemitLeft, escaped>>

\* EventTarget.emit: builds the event and enters dispatchEvent
emit(type, detail) ==
    /\ HubOnly
    /\ Idle
    /\ stack' = <<DispatchFrame(type, listeners, detail)>>
    /\ UNCHANGED <<listeners, nextUid, reemitLeft, escaped, onceHist, spyReg>>

\* dispatchEvent without the try/catch: the error leaves forEach,
\* dispatchEvent and emit, and every frame below them.
NoCatchListenerError(stk) ==
    [stack |-> << >>, escaped |-> TRUE]

\* The try/catch around each listener call in dispatchEvent: the error is
\* logged and the forEach goes on with the next listener.
CatchListenerError(stk) ==
    [stack |-> [stk EXCEPT ![Len(stk)].threw = TRUE], escaped |-> FALSE]

Settle(ls, stk) == IF stk = << >> THEN Compacted(ls) ELSE ls

Bump(n) == IF n < MaxCount THEN n + 1 ELSE n

\* History: a top-level emit(frameType) has returned
Finished(hist, stk, frameType) ==
    [u \in 1..MaxOnce |->
        IF stk = << >> /\ hist[u].type = frameType
        THEN [hist[u] EXCEPT !.emitsSince = Bump(@)]
        ELSE hist[u]]

\* dispatchEvent, forEach meeting an entry that was deleted meanwhile
DispatchSkip ==
    /\ HubOnly
    /\ ~Idle
    /\ Top.k = "dispatch"
    /\ Top.idx <= Len(listeners[Top.type])
    /\ listeners[Top.type][Top.idx] = Hole
    /\ stack' = SetTop(stack, [Top EXCEPT !.idx = @ + 1])
    /\ UNCHANGED <<listeners, nextUid, reemitLeft, escaped, onceHist, spyReg>>

\* dispatchEvent, forEach calling the next listener.  A wrappedListener
\* (once > 0) calls fn first and removes itself afterwards.
DispatchCall ==
    /\ HubOnly
    /\ ~Idle
    /\ Top.k = "dispatch"
    /\ Top.idx <= Len(listeners[Top.type])
    /\ listeners[Top.type][Top.idx] # Hole
    /\ LET type == Top.type
           e == listeners[type][Top.idx]
           frame == [Top EXCEPT !.idx = @ + 1, !.invoked = @ \cup {e},
                                !.calls = Append(@, e)]
           stk == SetTop(stack, frame)
           hist == IF e.once > 0
                   THEN [onceHist EXCEPT ![e.once].via = Bump(@)]
                   ELSE onceHist
       IN  /\ UNCHANGED <<nextUid, spyReg>>
           /\ CASE e.fn = "t" ->
                    \* fn throws: the wrapper's removal is not reached
                    LET caught == CatchListenerError(stk)
                    IN  /\ stack' = caught.stack
                        /\ escaped' = (escaped \/ caught.escaped)
                        /\ listeners' = Settle(listeners, caught.stack)
                        /\ onceHist' = Finished(hist, caught.stack, type)
                        /\ UNCHANGED reemitLeft
                [] e.fn = "r" /\ reemitLeft > 0 ->
                    \* fn calls emit(event.type, event.detail) before it returns
                    /\ reemitLeft' = reemitLeft - 1
                    /\ stack' = stk
                                \o (IF e.once > 0 THEN <<AfterFrame(type, e)>> ELSE << >>)
                                \o <<DispatchFrame(type, listeners, Top.event.detail)>>
                    /\ onceHist' = hist
                    /\ UNCHANGED <<listeners, escaped>>
                [] e.fn = "a" ->
                    \* fn calls addEventListener(event.type, g) for a
                    \* listener g that returns normally
                    /\ listeners' = addEventListener(listeners, type, Plain("f"))
                    /\ stack' = stk
                    /\ onceHist' = hist
                    /\ UNCHANGED <<reemitLeft, escaped>>
                [] OTHER ->
                    /\ listeners' = IF e.once > 0
                                    THEN removeEventListener(listeners, type, e)
                                    ELSE listeners
                    /\ stack' = stk
                    /\ onceHist' = hist
                    /\ UNCHANGED <<reemitLeft, escaped>>

\* dispatchEvent returns: forEach has passed the last entry
DispatchReturn ==
    /\ HubOnly
    /\ ~Idle
    /\ Top.k = "dispatch"
    /\ Top.idx > Len(listeners[Top.type])
    /\ stack' = Pop(stack)
    /\ listeners' = Settle(listeners, Pop(stack))
    /\ onceHist' = Finished(onceHist, Pop(stack), Top.type)
    /\ UNCHANGED <<nextUid, reemitLeft, escaped, spyReg>>

\* wrappedListener, after listener(event) returned: it removes itself
WrapperReturn ==
    /\ HubOnly
    /\ ~Idle
    /\ Top.k = "after"
    /\ listeners' = removeEventListener(listeners, Top.type, Top.entry)
    /\ stack' = Pop(stack)
    /\ UNCHANGED <<nextUid, reemitLeft, escaped, onceHist, spyReg>>

HubNext ==
    \/ \E type \in Types, fn \in Fns : On(type, fn)
    \/ \E type \in Types, fn \in Fns : Off(type, fn)
    \/ \E type \in Types, fn \in Fns : once(type, fn)
    \/ \E type \in Types : Clear(type)
    \/ \E type \in Types : emit(type, Undefined)
    \/ DispatchSkip
    \/ DispatchCall
    \/ DispatchReturn
    \/ WrapperReturn

\* The round trip of a test: on, off and emit with a payload, with the spy
\* among the listeners
RoundTripNext ==
    \/ \E type \in Types, fn \in {Spy, "t", "r"} : On(type, fn)
    \/ \E type \in Types, fn \in {Spy, "t", "r"} : Off(type, fn)
    \/ \E type \in Types, detail \in Payloads : emit(type, detail)
    \/ DispatchCall
    \/ DispatchReturn

\* Listeners that register listeners: "a" adds a listener for the event it
\* is handling
GrowNext ==
    \/ \E type \in Types, fn \in {"f", "a", "t"} : On(type, fn)
    \/ \E type \in Types, fn \in {"f", "a", "t"} : Off(type, fn)
    \/ \E type \in Types : emit(type, Undefined)
    \/ DispatchCall
    \/ DispatchReturn

(***************************************************************************)
(* Claims about the Event Hub                                              *)
(***************************************************************************)
Frames == {stack[i] : i \in 1..Len(stack)}

\* C7: a listener registered with once(name, fn) is unregistered before
\* fn's body runs: while the first invocation of fn through its wrapper is
\* still executing (it is inside an emit of the same event that fn itself
\* made), fn has not been invoked through that wrapper a second time.
C7_OnceUnregisteredBeforeBody ==
    \A fr \in Frames :
        fr.k = "after" => onceHist[fr.entry.once].via <= 1

\* C8: after once(name, fn), two or more successive emit(name) calls invoke
\* fn exactly once in total.
C8_OnceFiresExactlyOnce ==
    \A u \in 1..MaxOnce :
        (Idle /\ onceHist[u].type # "none" /\ onceHist[u].emitsSince >= 2)
            => onceHist[u].via = 1

\* C37: a dispatch invokes only the listeners that were registered when it
\* started, and no more listeners than there were at its start
C37_DispatchOverSnapshot ==
    \A fr \in Frames :
        fr.k = "dispatch"
            => /\ fr.invoked \subseteq fr.start
               /\ Len(fr.calls) <= Cardinality(fr.start)

\* C38: a once-listener whose body threw in its first invocation is
\* unregistered when that emit has returned, and later emits of the event
\* do not invoke it again
C38_ThrowingOnceUnregistered ==
    \A u \in 1..MaxOnce :
        (Idle /\ onceHist[u].fn = "t" /\ onceHist[u].emitsSince >= 1)
            => /\ ~SetHas(listeners[onceHist[u].type], Wrapped("t", u))
               /\ onceHist[u].via <= 1

\* C9: during an emit, if one listener throws, every other listener that is
\* registered for that event is still invoked in that same dispatch, and
\* the exception does not reach the caller of emit.
C9_ThrowIsolated ==
    /\ ~escaped
    /\ \A fr \in Frames :
        (fr.k = "dispatch" /\ fr.threw /\ fr.idx > Len(listeners[fr.type]))
            => \A e \in fr.start :
                   SetHas(listeners[fr.type], e) => e \in fr.invoked

\* C9 witness: a dispatch over <<t, f>> has ended; t threw and f, which
\* comes after it, was invoked all the same.
C9_Witness ==
    /\ ~Idle
    /\ Top.k = "dispatch"
    /\ Top.threw
    /\ listeners[Top.type] = <<Plain("t"), Plain("f")>>
    /\ Top.idx > 2
    /\ Top.invoked = {Plain("t"), Plain("f")}

\* How often the listener e was called
Count(calls, e) == Cardinality({i \in 1..Len(calls) : calls[i] = e})

\* The dispatches on the stack that have passed their last listener
Done == {fr \in Frames : fr.k = "dispatch" /\ fr.idx > Len(listeners[fr.type])}

\* C29: a function registered twice for the same event name is stored once,
\* and each emit of that event invokes it exactly once
C29_TwiceRegisteredStoredOnce ==
    \A t \in Types :
        spyReg[t] = "twice" =>
            /\ Count(listeners[t], Plain(Spy)) = 1
            /\ \A fr \in Done : fr.type = t => Count(fr.calls, Plain(Spy)) = 1

\* C29 witness: the spy was registered twice for one event and an emit of
\* that event has called it
C29_Witness ==
    \E fr \in Done :
        /\ spyReg[fr.type] = "twice"
        /\ Count(fr.calls, Plain(Spy)) = 1

\* Each emit invokes a function registered with on() exactly once, and does
\* not invoke a function that was removed with off()
OnOffRoundTrip ==
    \A fr \in Frames :
        /\ (fr \in Done /\ spyReg[fr.type] \in {"on", "twice"})
              => Count(fr.calls, Plain(Spy)) = 1
        /\ (fr.k = "dispatch" /\ spyReg[fr.type] = "off")
              => Count(fr.calls, Plain(Spy)) = 0

\* C30 as stated: on(name, fn) then emit(name, payload) invokes fn exactly
\* once with an event whose detail is payload, and after off(name, fn) an
\* emit of name does not invoke fn
C30_DetailIsPayload ==
    /\ OnOffRoundTrip
    /\ \A fr \in Frames : fr.k = "dispatch" => fr.event.detail = fr.payload

\* C30 as the code has it: the event's detail is the payload when one is
\* given, and null when emit is called with no payload (or with undefined)
C30_DetailIsPayloadOrNull ==
    /\ OnOffRoundTrip
    /\ \A fr \in Frames :
          fr.k = "dispatch" =>
              fr.event.detail = (IF fr.payload = Undefined THEN Null ELSE fr.payload)

\* C30 witness: an emit of "x" with the payload {a: 1} has called the spy,
\* registered with on(), once, while an emit of "y", where the spy was
\* removed with off(), would not
C30_Witness ==
    \E fr \in Done :
        /\ fr.type = "x"
        /\ fr.payload = "{a:1}" /\ fr.event.detail = "{a:1}"
        /\ spyReg["x"] = "on" /\ fr.calls = <<Plain(Spy)>>
        /\ spyReg["y"] = "off"


(***************************************************************************)
(* PART 2: StateManager, the controllable value cell                       *)
(*                                                                         *)
(* A cell is [value, isControlled, onChange]; onChange tells whether the   *)
(* options carried a change callback.  Every operation is an operator that *)
(* returns the cell afterwards together with what it did on the way: cb,   *)
(* the callback was invoked (with the new value), and notify, a 'change'   *)
(* event was dispatched to the subscribers.                                *)
(***************************************************************************)
CellValues == {"false", "true", "indeterminate"}

OptionValues == CellValues \cup {Undefined}

StateOptions == [prop : OptionValues, defaultProp : OptionValues, onChange : BOOLEAN]

\* StateManager.constructor
StateManager(initialValue, options) ==
    [value |-> IF options.prop # Undefined THEN options.prop
               ELSE IF options.defaultProp # Undefined THEN options.defaultProp
               ELSE initialValue,
     isControlled |-> options.prop # Undefined,
     onChange |-> options.onChange]

\* `return this._value`
getValueOf(c) == c.value

\* One thing a mutating call did, as the callback or a subscriber saw it:
\* ev is "callback" or "notify", arg the value handed over, old the
\* oldValue of the event's detail, sees what getValue() returned then
Step(ev, arg, old, sees) == [ev |-> ev, arg |-> arg, old |-> old, sees |-> sees]

Untouched(c) == [cell |-> c, cb |-> FALSE, notify |-> FALSE, log |-> << >>]

\* setValue without the `if (this._value === newValue) return`
UnguardedSetValue(c, newValue) ==
    LET c1 == [c EXCEPT !.value = newValue]
    IN  [cell |-> c1, cb |-> c.onChange, notify |-> TRUE,
         log |-> (IF c.onChange
                  THEN <<Step("callback", newValue, Undefined, getValueOf(c1))>>
                  ELSE << >>)
                 \o <<Step("notify", newValue, c.value, getValueOf(c1))>>]

\* setValue dispatching 'change' before it calls options.onChange
NotifyFirstSetValue(c, newValue) ==
    IF c.value = newValue THEN Untouched(c)
    ELSE LET c1 == [c EXCEPT !.value = newValue]
         IN  [cell |-> c1, cb |-> c.onChange, notify |-> TRUE,
              log |-> <<Step("notify", newValue, c.value, getValueOf(c1))>>
                      \o (IF c.onChange
                          THEN <<Step("callback", newValue, Undefined, getValueOf(c1))>>
                          ELSE << >>)]

\* StateManager.setValue
setValue(c, newValue) ==
    IF c.value = newValue THEN Untouched(c)
    ELSE LET c1 == [c EXCEPT !.value = newValue]
         IN  [cell |-> c1, cb |-> c.onChange, notify |-> TRUE,
              log |-> (IF c.onChange
                       THEN <<Step("callback", newValue, Undefined, getValueOf(c1))>>
                       ELSE << >>)
                      \o <<Step("notify", newValue, c.value, getValueOf(c1))>>]

\* StateManager `set value(newValue)`, the property setter
valueSetter(c, newValue) ==
    IF c.isControlled THEN Untouched(c)
    ELSE setValue(c, newValue)

\* updateControlledValue with the equality guard setValue has
GuardedUpdateControlledValue(c, newValue) ==
    IF ~c.isControlled \/ c.value = newValue THEN Untouched(c)
    ELSE LET c1 == [c EXCEPT !.value = newValue]
         IN  [cell |-> c1, cb |-> FALSE, notify |-> TRUE,
              log |-> <<Step("notify", newValue, c.value, getValueOf(c1))>>]

\* StateManager.updateControlledValue
updateControlledValue(c, newValue) ==
    IF ~c.isControlled THEN Untouched(c)
    ELSE LET c1 == [c EXCEPT !.value = newValue]
         IN  [cell |-> c1, cb |-> FALSE, notify |-> TRUE,
              log |-> <<Step("notify", newValue, c.value, getValueOf(c1))>>]

\* StateManager.getValue and `get value()`
getValue(c) == getValueOf(c)

\* What a subscribed listener does when it is called: "f" returns, "t"
\* throws, "u" calls the unsubscribe functions of all the other listeners
SubFns == {"f", "t", "u"}

Ids(s) == {s[i].id : i \in 1..Len(s)}

\* dispatchEvent('change') walking the listeners in reverse
RECURSIVE DeliverReversed(_, _, _, _)
DeliverReversed(s, i, gone, invoked) ==
    IF i > Len(s) THEN [gone |-> gone, invoked |-> invoked]
    ELSE LET l == s[Len(s) + 1 - i]
         IN  IF l.id \in gone THEN DeliverReversed(s, i + 1, gone, invoked)
             ELSE DeliverReversed(s, i + 1,
                      IF l.fn = "u" THEN Ids(s) \ {l.id} ELSE gone,
                      Append(invoked, l.id))

\* EventTarget.dispatchEvent on the cell's 'change' listeners: the Set is
\* walked in insertion order, a listener deleted before its turn is passed
\* over, what a listener throws is caught
RECURSIVE Deliver(_, _, _, _)
Deliver(s, i, gone, invoked) ==
    IF i > Len(s) THEN [gone |-> gone, invoked |-> invoked]
    ELSE IF s[i].id \in gone THEN Deliver(s, i + 1, gone, invoked)
    ELSE Deliver(s, i + 1,
             IF s[i].fn = "u" THEN Ids(s) \ {s[i].id} ELSE gone,
             Append(invoked, s[i].id))

\* `x ?? d` and destructuring defaults
OrElse(x, d) == IF x = Undefined THEN d ELSE x

\* createControllableState taking undefined as the initial value when
\* neither prop nor defaultProp is given
LenientControllableState(options) ==
    [threw |-> FALSE,
     cell |-> StateManager(OrElse(options.prop, options.defaultProp), options)]

\* createControllableState: an Error when neither prop nor defaultProp is given
createControllableState(options) ==
    [threw |-> options.prop = Undefined /\ options.defaultProp = Undefined,
     cell |-> StateManager(OrElse(options.prop, options.defaultProp), options)]

NoOp == [op |-> "none", arg |-> Undefined, before |-> Undefined,
         cb |-> FALSE, notify |-> FALSE, notified |-> << >>, log |-> << >>,
         stayed |-> {}, repeat |-> FALSE, prevNotify |-> FALSE,
         threw |-> FALSE, prop |-> Undefined, defaultProp |-> Undefined,
         delivered |-> << >>]

CellInit ==
    /\ \E iv \in CellValues, o \in StateOptions : cell = StateManager(iv, o)
    /\ subs = << >>
    /\ nextSub = 0
    /\ last = NoOp

\* The effects of one mutating call on the cell under test
Apply(opName, arg, r) ==
    LET d == Deliver(subs, 1, {}, << >>)
        kept == SelectSeq(subs, LAMBDA l : l.id \notin d.gone)
    IN  /\ CellOnly
        /\ cell' = r.cell
        /\ subs' = IF r.notify THEN kept ELSE subs
        /\ last' = [op |-> opName, arg |-> arg, before |-> getValue(cell),
                    cb |-> r.cb, notify |-> r.notify,
                    notified |-> IF r.notify THEN d.invoked ELSE << >>,
                    log |-> r.log,
                    stayed |-> IF r.notify THEN Ids(kept) ELSE {},
                    repeat |-> /\ opName \in {"setValue", "valueSetter"}
                               /\ last.op \in {"setValue", "valueSetter"}
                               /\ last.arg = arg,
                    prevNotify |-> last.notify,
                    threw |-> FALSE, prop |-> Undefined, defaultProp |-> Undefined]
        /\ UNCHANGED nextSub

\* createControllableState(options) called for a new cell, which replaces
\* the cell under test when the call returns one
Create(options) ==
    LET made == createControllableState(options)
    IN  /\ CellOnly
        /\ cell' = IF made.threw THEN cell ELSE made.cell
        /\ subs' = IF made.threw THEN subs ELSE << >>
        /\ nextSub' = IF made.threw THEN nextSub ELSE 0
        /\ last' = [NoOp EXCEPT !.op = "create", !.threw = made.threw,
                                !.prop = options.prop,
                                !.defaultProp = options.defaultProp]

SetValue(v) == Apply("setValue", v, setValue(cell, v))

ValueSetter(v) == Apply("valueSetter", v, valueSetter(cell, v))

UpdateControlledValue(v) == Apply("updateControlledValue", v, updateControlledValue(cell, v))

\* StateManager.subscribe: wraps the listener in a new closure
subscribe(fn) ==
    /\ CellOnly
    /\ nextSub < MaxSubs
    /\ nextSub' = nextSub + 1
    /\ subs' = Append(subs, [id |-> nextSub + 1, fn |-> fn])
    /\ UNCHANGED <<cell, last>>

\* the function subscribe() returned: removes that closure
unsubscribe(i) ==
    /\ CellOnly
    /\ i \in 1..Len(subs)
    /\ subs' = SubSeq(subs, 1, i - 1) \o SubSeq(subs, i + 1, Len(subs))
    /\ UNCHANGED <<cell, nextSub, last>>

CellNext ==
    \/ \E v \in CellValues : SetValue(v)
    \/ \E v \in CellValues : ValueSetter(v)
    \/ \E v \in CellValues : UpdateControlledValue(v)
    \/ \E fn \in SubFns : subscribe(fn)
    \/ \E o \in StateOptions : Create(o)
    \/ \E i \in 1..MaxSubs : unsubscribe(i)

----
\* A listener or a change callback that calls setValue on the cell it
\* listens to: the value it sets
Nested == "true"

\* StateManager.setValue with the calls its callback and its listeners make
\* on the same cell while it runs.  st is [cell, delivered]: delivered
\* lists, in order, every [id, arg] handed to a subscriber.  cbSets tells
\* whether options.onChange calls setValue(Nested); a subscriber with fn
\* "s" does so each time it is invoked.
RECURSIVE StateManager_setValue(_, _, _)
RECURSIVE StateManager_dispatchEvent(_, _, _, _)
StateManager_setValue(st, newValue, cbSets) ==
    IF st.cell.value = newValue THEN st
    ELSE LET st1 == [st EXCEPT !.cell.value = newValue]
             st2 == IF st1.cell.onChange /\ cbSets
                    THEN StateManager_setValue(st1, Nested, cbSets)
                    ELSE st1
         IN  StateManager_dispatchEvent(st2, newValue, 1, cbSets)

\* EventTarget.dispatchEvent of the 'change' event whose detail.value is
\* value, from the i-th listener on
StateManager_dispatchEvent(st, value, i, cbSets) ==
    IF i > Len(subs) THEN st
    ELSE LET st1 == [st EXCEPT !.delivered = Append(@, [id |-> subs[i].id, arg |-> value])]
             st2 == IF subs[i].fn = "s"
                    THEN StateManager_setValue(st1, Nested, cbSets)
                    ELSE st1
         IN  StateManager_dispatchEvent(st2, value, i + 1, cbSets)

\* setValue(v) called from outside any notification
NestedSetValue(v, cbSets) ==
    LET st == StateManager_setValue([cell |-> cell, delivered |-> << >>], v, cbSets)
    IN  /\ CellOnly
        /\ cbSets => cell.onChange
        /\ cell' = st.cell
        /\ last' = [NoOp EXCEPT !.op = "nested", !.arg = v,
                                !.before = getValue(cell),
                                !.delivered = st.delivered]
        /\ UNCHANGED <<subs, nextSub>>

ReentrantNext ==
    \/ \E fn \in {"f", "s"} : subscribe(fn)
    \/ \E v \in CellValues, cbSets \in BOOLEAN : NestedSetValue(v, cbSets)

\* The value most recently handed to subscriber id
LastDelivered(d, id) ==
    LET at == {i \in 1..Len(d) : d[i].id = id}
    IN  d[CHOOSE i \in at : \A j \in at : j <= i].arg

\* C36: when a set() that was called from outside any notification returns,
\* the value most recently delivered to every subscriber is get(), also
\* when a subscriber or the change callback called set() on the way
C36_SubscribersHoldFinalValue ==
    (last.op = "nested" /\ last.delivered # << >>)
    => \A id \in Ids(subs) : LastDelivered(last.delivered, id) = getValue(cell)

\* C3: on a cell constructed controlled, a set(x) through the value setter
\* or through setValue(x) leaves get() unchanged, invokes the change
\* callback zero times and notifies no subscriber.
C3_ControlledSetIsInert ==
    (cell.isControlled /\ last.op \in {"valueSetter", "setValue"})
        => /\ getValue(cell) = last.before
           /\ ~last.cb
           /\ last.notified = << >>


Sets == {"setValue", "valueSetter"}

Notified == {last.notified[i] : i \in 1..Len(last.notified)}

C13_SetSameValueIsNoOp ==
    (~cell.isControlled /\ last.op \in Sets) =>
        /\ last.arg = last.before =>
              /\ ~last.notify /\ last.notified = << >>
              /\ ~last.cb
              /\ getValue(cell) = last.before
        /\ last.repeat => (~last.notify /\ ~last.cb)

\* set(v) was called twice in a row on an uncontrolled cell with a
\* callback, and the first call notified
C13_Witness ==
    /\ ~cell.isControlled /\ cell.onChange
    /\ last.op \in Sets
    /\ last.repeat
    /\ last.prevNotify

\* C14: on a controlled cell updateControlled(x) stores x and notifies the
\* subscribers, for every x, also one identical to the current value
C14_UpdateControlledAlwaysStoresAndNotifies ==
    (cell.isControlled /\ last.op = "updateControlledValue") =>
        /\ getValue(cell) = last.arg
        /\ last.notify
        /\ last.stayed \subseteq Notified

\* updateControlled(x) with x the value already stored notified two
\* subscribers
C14_Witness ==
    /\ cell.isControlled
    /\ last.op = "updateControlledValue"
    /\ last.arg = last.before
    /\ Len(last.notified) = 2

C17_NoValueNoDefaultThrows ==
    last.op = "create" =>
        /\ last.threw <=> (last.prop = Undefined /\ last.defaultProp = Undefined)
        /\ ~last.threw =>
              /\ getValue(cell) = OrElse(last.prop, last.defaultProp)
              /\ cell.isControlled <=> last.prop # Undefined

\* createControllableState was called with neither and threw
C17_Witness ==
    /\ last.op = "create"
    /\ last.prop = Undefined /\ last.defaultProp = Undefined
    /\ last.threw


(***************************************************************************)
(* PART 3: Component and the widgets                                       *)
(*                                                                         *)
(* The base constructor calls this.init() before the subclass's field      *)
(* initializers and constructor body have run: inside init() every field   *)
(* the subclass declares is still undefined, and whatever init() assigns   *)
(* to a field that has an initializer is overwritten when super() returns. *)
(* A field declared without an initializer keeps what init() assigned when *)
(* the output is compiled with the legacy field semantics, and is reset to *)
(* undefined with the standard (define) semantics; the compiler settings   *)
(* are not part of the sources, so the model leaves the choice open.       *)
(*                                                                         *)
(* Every method is an operator from world to world.  A world holds the     *)
(* instance, the page and what the running call did so far.                *)
(***************************************************************************)
Builds == {"legacy", "define"}

Kinds == {"Label", "Checkbox", "Switch", "AlertDialog", "RadioGroup", "Accordion"}

WidgetEvents == {"checkedChange", "valueChange", "openChange", "itemClose"}

AttrKeys == {"root.for", "root.role", "root.aria-checked",
             "trigger.aria-checked", "trigger.data-state",
             "trigger.aria-required", "trigger.disabled", "indicator.hidden",
             "one.aria-checked", "one.tabindex", "two.aria-checked", "two.tabindex",
             "one.aria-expanded", "one.data-state", "one.hidden", "two.aria-expanded"}

Absent == "absent"

\* The options a test or a page passes to each widget
OptionsOf(kind) ==
    CASE kind = "Label" ->
            [prop : {Undefined}, defaultProp : {Undefined}, onChange : {FALSE},
             disabled : {FALSE}, htmlFor : {Undefined, "id"}, type : {Undefined}]
      [] kind = "Checkbox" ->
            [prop : {Undefined, "false"},
             defaultProp : {Undefined, "true"}, onChange : BOOLEAN,
             disabled : BOOLEAN, htmlFor : {Undefined}, type : {Undefined}]
      [] kind = "RadioGroup" ->
            [prop : {Undefined, "one"}, defaultProp : {Undefined, "one"},
             onChange : BOOLEAN, disabled : {FALSE}, htmlFor : {Undefined},
             type : {Undefined}]
      [] kind = "Accordion" ->
            \* value and defaultValue: a string for type 'single', an array
            \* (here ['one']) for type 'multiple'; collapsible is not passed
            {o \in [prop : {Undefined, "one"}, defaultProp : {Undefined, "one", "[one]"},
                    onChange : BOOLEAN, disabled : {FALSE}, htmlFor : {Undefined},
                    type : {"single", "multiple"}] :
                /\ (o.type = "single") <=> (o.defaultProp # "[one]")
                /\ o.prop # Undefined => o.defaultProp = Undefined}
      [] OTHER ->
            [prop : {Undefined, "false"}, defaultProp : {Undefined, "true"},
             onChange : BOOLEAN, disabled : BOOLEAN, htmlFor : {Undefined},
             type : {Undefined}]

\* The markup under the root node: which marked sub-elements exist
MarkupOf(kind) ==
    CASE kind = "Checkbox" ->
            {m \in [trigger : BOOLEAN, indicator : BOOLEAN, items : {0}] :
                m.indicator => m.trigger}
      [] kind \in {"RadioGroup", "Accordion"} ->
            [trigger : {FALSE}, indicator : {FALSE}, items : {0, 2}]
      [] OTHER -> [trigger : {FALSE}, indicator : {FALSE}, items : {0}]

NoOptions == [prop |-> Undefined, defaultProp |-> Undefined, onChange |-> FALSE,
              disabled |-> FALSE, htmlFor |-> Undefined, type |-> Undefined]

NoMarkup == [trigger |-> FALSE, indicator |-> FALSE, items |-> 0]

NoCell == StateManager("false", [prop |-> Undefined, defaultProp |-> Undefined, onChange |-> FALSE])

\* Component.constructor up to the call of init(): the base fields are set,
\* the fields of the subclass do not exist yet
Component(kind, options, markup) ==
    [kind |-> kind, status |-> "constructing", destroyed |-> FALSE,
     options |-> options, markup |-> markup,
     stateRef |-> Undefined, elements |-> Undefined, itemsRef |-> Undefined,
     disabled |-> FALSE, required |-> FALSE]

NoWidget == [Component("none", NoOptions, NoMarkup) EXCEPT !.status = "none"]

NoCleanup == [ran |-> FALSE, destroyed |-> FALSE, tracked |-> 0, hub |-> 0,
              native |-> 0, removed |-> 0, runs |-> 0]

NoObs == [ctorThrew |-> FALSE, destroyThrew |-> FALSE, lastThrew |-> FALSE,
          clicks |-> 0, cleanupSaw |-> NoCleanup,
          postAttr |-> FALSE, postDispatch |-> FALSE, postReg |-> FALSE,
          postRun |-> FALSE, calls |-> 0, events |-> 0, postSpy |-> FALSE,
          configError |-> FALSE, arrows |-> 0, postDestroy |-> "none"]

WidgetInit ==
    /\ build \in Builds
    /\ w = NoWidget
    /\ wcell = NoCell
    /\ native = {}
    /\ tracked = {}
    /\ whub = [e \in WidgetEvents |-> << >>]
    /\ attrs = [k \in AttrKeys |-> Absent]
    /\ cbLog = << >>
    /\ spy = 0
    /\ obs = NoObs

\* The world at the start of a call
World ==
    [w |-> w, cell |-> wcell, native |-> native, tracked |-> tracked, hub |-> whub,
     attrs |-> attrs, cbLog |-> cbLog, spy |-> spy, cleanupSaw |-> obs.cleanupSaw,
     threw |-> FALSE, writes |-> 0, dispatches |-> 0, regs |-> 0, removed |-> 0,
     spied |-> FALSE, configError |-> FALSE]

\* An exception leaves the running method; what was done before it stays
Throw(W) == [W EXCEPT !.threw = TRUE]

\* Component.addEventListener: records [event, listener] and registers the
\* listener on the target (a DOM node, or this.eventTarget)
DomHas(s, l) == \E i \in 1..Len(s) : s[i] = l

\* addEventListener of a DOM EventTarget (this.eventTarget is the platform's
\* EventTarget: Component.ts imports none): a listener is held once
DomAdd(s, l) == IF DomHas(s, l) THEN s ELSE Append(s, l)

Component_addEventListener(W, target, event, listener) ==
    [W EXCEPT !.tracked = @ \cup {[event |-> event, handler |-> listener]},
              !.native = IF target = "eventTarget" THEN @
                         ELSE @ \cup {[target |-> target, event |-> event, handler |-> listener]},
              !.hub = IF target = "eventTarget" THEN [@ EXCEPT ![event] = DomAdd(@, listener)] ELSE @,
              !.regs = Bump(@)]

\* Component.addCustomEventListener
addCustomEventListener(W, event, listener) ==
    Component_addEventListener(W, "eventTarget", event, listener)

\* Component.dispatchEvent: every listener of this.eventTarget for the type
Component_dispatchEvent(W, type) ==
    [W EXCEPT !.dispatches = Bump(@),
              !.spy = IF DomHas(W.hub[type], "spy") THEN Bump(@) ELSE @,
              !.spied = @ \/ DomHas(W.hub[type], "spy")]

\* Component.setAttribute and setDataAttribute (value Absent: removeAttribute)
setAttribute(W, key, value) ==
    [W EXCEPT !.attrs[key] = value, !.writes = Bump(@)]

Not(v) == IF v = "true" THEN "false" ELSE "true"

\* The options handed to createControllableState by a widget
CellOptions(W, defaultProp) ==
    [prop |-> W.w.options.prop, defaultProp |-> defaultProp,
     onChange |-> W.w.options.onChange]

\* `this.<state> = createControllableState(...)` inside init()
CreateState(W, defaultProp) ==
    LET made == createControllableState(CellOptions(W, defaultProp))
    IN  IF made.threw THEN [Throw(W) EXCEPT !.configError = TRUE]
        ELSE [W EXCEPT !.cell = made.cell, !.w.stateRef = "object"]

Logged(log, v) == IF Len(log) < MaxCount THEN Append(log, v) ELSE log

---- 
\* Label.init
Label_init(W) ==
    LET W1 == Component_addEventListener(W, "root", "mousedown", "Label.handleMouseDown")
    IN  IF W.w.options.htmlFor # Undefined
        THEN setAttribute(W1, "root.for", W.w.options.htmlFor)
        ELSE W1

\* Label.setFor
setFor(W, htmlFor) == setAttribute(W, "root.for", htmlFor)

----
\* Checkbox.getState
getState(checked) ==
    IF checked = "indeterminate" THEN "indeterminate"
    ELSE IF checked = "true" THEN "checked" ELSE "unchecked"

HasTrigger(W) == W.w.elements = "found" /\ W.w.markup.trigger

HasIndicator(W) == W.w.elements = "found" /\ W.w.markup.indicator

\* Checkbox.updateCheckedState
updateCheckedState(W) ==
    IF W.w.stateRef # "object" THEN Throw(W)
    ELSE LET checked == getValue(W.cell)
             W1 == IF HasTrigger(W)
                   THEN setAttribute(
                          setAttribute(
                            setAttribute(
                              setAttribute(W, "trigger.aria-checked",
                                  IF checked = "indeterminate" THEN "mixed" ELSE checked),
                              "trigger.aria-required", IF W.w.required THEN "true" ELSE "false"),
                            "trigger.data-state", getState(checked)),
                          "trigger.disabled", IF W.w.disabled THEN "" ELSE Absent)
                   ELSE W
         IN  IF HasIndicator(W)
             THEN setAttribute(W1, "indicator.hidden",
                      IF checked \in {"indeterminate", "true"} THEN Absent ELSE "")
             ELSE W1

\* The listener Checkbox.setupEventListeners subscribes to checkedState.
\* It runs inside StateManager's dispatchEvent, which catches what it throws.
Checkbox_onChange(W) ==
    LET W1 == updateCheckedState(W)
    IN  IF W1.threw THEN [W1 EXCEPT !.threw = FALSE]
        ELSE Component_dispatchEvent(W1, "checkedChange")

\* this.checkedState.setValue(v) as the Checkbox calls it
Checkbox_set(W, v) ==
    IF W.w.stateRef # "object" THEN Throw(W)
    ELSE LET r == setValue(W.cell, v)
             W1 == [W EXCEPT !.cell = r.cell,
                             !.cbLog = IF r.cb THEN Logged(@, v) ELSE @]
         IN  IF r.notify THEN Checkbox_onChange(W1) ELSE W1

\* Checkbox.init
Checkbox_init(W) ==
    LET W1 == [W EXCEPT !.w.required = FALSE, !.w.disabled = W.w.options.disabled]
        W2 == CreateState(W1, OrElse(W.w.options.defaultProp, "false"))
        \* findElements
        W3 == [W2 EXCEPT !.w.elements = "found"]
        \* setupEventListeners
        W4 == IF HasTrigger(W3)
              THEN Component_addEventListener(
                     Component_addEventListener(W3, "trigger", "click",
                         "Checkbox.handleTriggerClick"),
                     "trigger", "keydown", "Checkbox.handleTriggerKeydown")
              ELSE W3
    IN  IF W2.threw THEN W2 ELSE updateCheckedState(W4)

\* The field initializers of Checkbox, run when super() has returned
Checkbox_fields(W, b) ==
    [W EXCEPT !.w.elements = "empty", !.w.required = FALSE, !.w.disabled = FALSE,
              !.w.stateRef = IF b = "define" THEN Undefined ELSE @]

\* Checkbox.handleTriggerClick, and toggle()
Checkbox_handleTriggerClick(W) ==
    IF W.w.disabled THEN W
    ELSE IF W.w.stateRef # "object" THEN Throw(W)
    ELSE LET currentChecked == getValue(W.cell)
         IN  Checkbox_set(W, IF currentChecked = "indeterminate" THEN "true"
                             ELSE Not(currentChecked))

\* Checkbox.setRequired
setRequired(W, required) ==
    LET W1 == [W EXCEPT !.w.required = required]
    IN  IF HasTrigger(W1)
        THEN setAttribute(W1, "trigger.aria-required", IF required THEN "true" ELSE "false")
        ELSE W1

\* Checkbox.setDisabled
setDisabled(W, disabled) ==
    updateCheckedState([W EXCEPT !.w.disabled = disabled])

\* Checkbox.cleanup
Checkbox_cleanup(W) == [W EXCEPT !.w.stateRef = Null]

----
\* Reading a property of this.elements, or assigning one
ElementsMissing(W) == W.w.elements \in {Undefined, Null}

\* Switch.updateDisplay
Switch_updateDisplay(W) ==
    IF W.w.stateRef # "object" \/ ElementsMissing(W) THEN Throw(W)
    ELSE setAttribute(W, "root.aria-checked", getValue(W.cell))

\* The listener Switch.setupEventListeners subscribes to checkedState
Switch_onChange(W) ==
    LET W1 == Switch_updateDisplay(W)
    IN  IF W1.threw THEN [W1 EXCEPT !.threw = FALSE]
        ELSE Component_dispatchEvent(W1, "checkedChange")

\* Switch.init: findElements, setupAttributes, setupEventListeners,
\* updateDisplay.  findElements starts with `this.elements.thumb = ...`.
Switch_init(W) ==
    IF ElementsMissing(W) THEN Throw(W)
    ELSE LET W1 == setAttribute(W, "root.role", "switch")
         IN  IF W1.w.stateRef # "object" THEN Throw(W1)
             ELSE Switch_updateDisplay(
                      Component_addEventListener(W1, "root", "click", "Switch.handleClick"))

\* Switch.constructor after super(): the state and the elements record
Switch_body(W) ==
    [CreateState(W, OrElse(W.w.options.defaultProp, "false"))
        EXCEPT !.w.disabled = W.w.options.disabled, !.w.elements = "found"]

\* Switch.handleClick
Switch_handleClick(W) ==
    IF W.w.disabled THEN W
    ELSE IF W.w.stateRef # "object" THEN Throw(W)
    ELSE LET v == Not(getValue(W.cell))
             r == setValue(W.cell, v)
             W1 == [W EXCEPT !.cell = r.cell,
                             !.cbLog = IF r.cb THEN Logged(@, v) ELSE @]
         IN  IF r.notify THEN Switch_onChange(W1) ELSE W1

----
\* AlertDialog.init: findElements starts with `this.elements.trigger = ...`;
\* setupEventListeners subscribes to this.openState and listens on the
\* trigger, the overlay, the two buttons and the document.
AlertDialog_init(W) ==
    IF ElementsMissing(W) THEN Throw(W)
    ELSE LET W1 == setAttribute(W, "root.role", "alertdialog")
         IN  IF W1.w.stateRef # "object" THEN Throw(W1)
             ELSE Component_addEventListener(
                      Component_addEventListener(W1, "trigger", "click",
                          "AlertDialog.handleTriggerClick"),
                      "document", "keydown", "AlertDialog.handleKeydown")

----
\* RadioGroup.init: the state, setupElement, initializeItems (one
\* this.items.set per item found), setupEventListeners, updateItemsState
\* (this.items.forEach)
RadioGroup_init(W) ==
    LET W1 == CreateState(W, W.w.options.defaultProp)
        W2 == setAttribute(W1, "root.role", "radiogroup")
        W3 == Component_addEventListener(
                Component_addEventListener(
                  Component_addEventListener(W2, "root", "keydown", "RadioGroup.handleKeydown"),
                  "document", "keydown", "RadioGroup.trackKeydown"),
                "document", "keyup", "RadioGroup.trackKeyup")
    IN  IF W1.threw THEN W1
        ELSE IF W2.w.markup.items > 0 /\ W2.w.itemsRef # "map" THEN Throw(W2)
        ELSE IF W3.w.itemsRef # "map" THEN Throw(W3)
        ELSE W3

\* Accordion.init: the state, setupElement, initializeItems (one
\* this.items.set per item found), setupEventListeners, updateItemsState
\* (this.items.forEach)
Accordion_init(W) ==
    LET W1 == CreateState(W, W.w.options.defaultProp)
        W2 == setAttribute(W1, "root.role", "tablist")
        W3 == Component_addEventListener(W2, "root", "keydown", "Accordion.handleKeydown")
    IN  IF W1.threw THEN W1
        ELSE IF W2.w.markup.items > 0 /\ W2.w.itemsRef # "map" THEN Throw(W2)
        ELSE IF W3.w.itemsRef # "map" THEN Throw(W3)
        ELSE W3

\* Accordion.closeItem on an instance.  Its fields are what the field
\* initializers left when super() returned, type 'single' and collapsible
\* false, so neither branch stores a value; 'itemClose' is dispatched.
Accordion_closeItem(W, value) == Component_dispatchEvent(W, "itemClose")

----
\* this.init(), dispatched to the subclass
init(W) ==
    CASE W.w.kind = "Label" -> Label_init(W)
      [] W.w.kind = "Checkbox" -> Checkbox_init(W)
      [] W.w.kind = "Switch" -> Switch_init(W)
      [] W.w.kind = "AlertDialog" -> AlertDialog_init(W)
      [] W.w.kind = "RadioGroup" -> RadioGroup_init(W)
      [] W.w.kind = "Accordion" -> Accordion_init(W)

\* The subclass's field initializers, run when super() has returned
FieldInitializers(W, b) ==
    CASE W.w.kind = "Checkbox" -> Checkbox_fields(W, b)
      [] W.w.kind \in {"RadioGroup", "Accordion"} ->
            [W EXCEPT !.w.itemsRef = "map", !.w.disabled = FALSE, !.w.required = FALSE,
                      !.w.stateRef = IF b = "define" THEN Undefined ELSE @]
      [] OTHER -> W

\* The rest of the subclass's constructor
ConstructorBody(W) ==
    IF W.w.kind \in {"Switch", "AlertDialog"} THEN Switch_body(W) ELSE W

\* `new Widget(element, options)`
construct(W, kind, options, markup, b) ==
    LET W0 == [W EXCEPT !.w = Component(kind, options, markup)]
        W1 == init(W0)
    IN  IF W1.threw THEN [W1 EXCEPT !.w.status = "threw"]
        ELSE [ConstructorBody(FieldInitializers(W1, b)) EXCEPT !.w.status = "held"]

RECURSIVE HubCountOver(_, _)
HubCountOver(h, es) ==
    IF es = {} THEN 0
    ELSE LET e == CHOOSE x \in es : TRUE
         IN  Len(h[e]) + HubCountOver(h, es \ {e})

HubCount(h) == HubCountOver(h, DOMAIN h)

\* destroy(): `this.destroyed = true`
MarkDestroyed(W) == [W EXCEPT !.w.destroyed = TRUE]

\* destroy() clearing the record without removing what it names
ForgetTracked(W) == [W EXCEPT !.tracked = {}]

\* destroy(): every recorded [event, listener] is removed from
\* this.eventTarget, then the record is cleared
RemoveTracked(W) ==
    LET kept == [e \in DOMAIN W.hub |->
                    SelectSeq(W.hub[e],
                        LAMBDA l : [event |-> e, handler |-> l] \notin W.tracked)]
    IN  [W EXCEPT !.hub = kept, !.tracked = {},
                  !.removed = HubCount(W.hub) - HubCount(kept)]

\* destroy(): `this.cleanup()` when the subclass has one; the cleanup hook
\* starts in the state cleanupSaw records
RunCleanup(W) ==
    IF W.w.kind = "Label" THEN W
    ELSE [(IF W.w.kind \in {"RadioGroup", "Accordion"}
           THEN [W EXCEPT !.w.itemsRef = "map", !.w.stateRef = Null]
           ELSE IF W.w.kind = "Checkbox" THEN Checkbox_cleanup(W)
           ELSE [W EXCEPT !.w.stateRef = Null, !.w.elements = Null])
          EXCEPT !.cleanupSaw =
              [ran |-> TRUE, destroyed |-> W.w.destroyed,
               tracked |-> Cardinality(W.tracked), hub |-> HubCount(W.hub),
               native |-> Cardinality(W.native), removed |-> W.removed,
               runs |-> Bump(W.cleanupSaw.runs)]]

\* destroy() with the flag set at the end instead of at the start
destroyFlagLast(W) ==
    IF W.w.destroyed THEN W
    ELSE MarkDestroyed(RunCleanup(RemoveTracked(W)))

\* destroy() without its first line
destroyAgain(W) == RunCleanup(RemoveTracked(MarkDestroyed(W)))

\* Component.destroy
destroy(W) ==
    IF W.w.destroyed THEN W
    ELSE RunCleanup(RemoveTracked(MarkDestroyed(W)))

\* The body of a listener the widget attached to a DOM node
RunHandler(h, W) ==
    CASE h \in {"Checkbox.handleTriggerClick", "Checkbox.handleTriggerKeydown"} ->
            Checkbox_handleTriggerClick(W)
      [] h = "Switch.handleClick" -> Switch_handleClick(W)
      [] OTHER -> W

RECURSIVE RunHandlers(_, _)
RunHandlers(H, W) ==
    IF H = {} THEN W
    ELSE LET h == CHOOSE x \in H : TRUE
         IN  RunHandlers(H \ {h}, RunHandler(h, W))

\* The listeners a DOM node holds for an event
HandlersAt(target, event) ==
    {n.handler : n \in {m \in native : m.target = target /\ m.event = event}}

\* The element a user clicks to operate the widget
\* The semantic event a widget of the kind announces
EventOf(kind) ==
    CASE kind \in {"RadioGroup", "Accordion"} -> "valueChange"
      [] kind = "AlertDialog" -> "openChange"
      [] OTHER -> "checkedChange"

UserTarget(kind) ==
    CASE kind \in {"Switch", "Label"} -> "root"
      [] kind = "RadioGroup" -> "radio"
      [] kind = "Accordion" -> "item.trigger"
      [] OTHER -> "trigger"

\* The target exists in the page
Present(target) ==
    CASE target = "trigger" -> w.kind = "AlertDialog" \/ w.markup.trigger
      [] target \in {"radio", "item.trigger"} -> w.markup.items > 0
      [] OTHER -> TRUE

\* The state after a call that leaves the world W: what it did is recorded
Commit(W, op) ==
    /\ WidgetOnly
    /\ UNCHANGED build
    /\ w' = W.w
    /\ wcell' = W.cell
    /\ native' = W.native
    /\ tracked' = W.tracked
    /\ whub' = W.hub
    /\ attrs' = W.attrs
    /\ cbLog' = W.cbLog
    /\ spy' = W.spy
    /\ obs' = [obs EXCEPT
                 !.lastThrew = W.threw,
                 !.ctorThrew = @ \/ (op = "construct" /\ W.threw),
                 !.destroyThrew = @ \/ (op \in {"destroy", "destroyed"} /\ W.threw),
                 !.clicks = IF op = "click" THEN Bump(@) ELSE @,
                 !.calls = IF op = "call" THEN Bump(@) ELSE @,
                 !.events = IF op \in {"event", "arrow"} THEN Bump(@) ELSE @,
                 !.arrows = IF op = "arrow" THEN Bump(@) ELSE @,
                 !.cleanupSaw = W.cleanupSaw,
                 !.postAttr = @ \/ (w.destroyed /\ W.writes > 0),
                 !.postDispatch = @ \/ (w.destroyed /\ W.dispatches > 0),
                 !.postReg = @ \/ (w.destroyed /\ W.regs > 0),
                 !.postRun = @ \/ (w.destroyed /\ op \in {"click", "event", "arrow"}),
                 !.postSpy = @ \/ (w.destroyed /\ W.spied),
                 !.configError = @ \/ W.configError,
                 !.postDestroy =
                     IF op # "destroyed" THEN @
                     ELSE IF W = World /\ @ # "changed" THEN "noop"
                     ELSE "changed"]

Held == w.status = "held"

\* The widget is held and the caller has calls left
Callable == Held /\ obs.calls < MaxCount

Construct(kind, options, markup) ==
    /\ w.status = "none"
    /\ Commit(construct(World, kind, options, markup, build), "construct")

\* destroy() on a widget that was not destroyed before
Destroy ==
    /\ Held
    /\ ~w.destroyed
    /\ Commit(destroy(World), "destroy")

\* destroy() on a widget that is destroyed already; what it did is recorded
\* in obs.postDestroy
DestroyDestroyed ==
    /\ Held
    /\ w.destroyed
    /\ Commit(destroy(World), "destroyed")

\* A user clicks the widget's control
Click ==
    /\ w.status \in {"held", "threw"}
    /\ Present(UserTarget(w.kind))
    /\ obs.clicks < MaxCount
    /\ Commit(RunHandlers(HandlersAt(UserTarget(w.kind), "click"), World), "click")

\* Another native event reaches a node that holds a listener for it
NativeEvent(target, event) ==
    /\ w.status \in {"held", "threw"}
    /\ event # "click"
    /\ HandlersAt(target, event) # {}
    /\ obs.events < MaxCount
    /\ Commit(RunHandlers(HandlersAt(target, event), World), "event")

SetFor(v) ==
    /\ Callable /\ w.kind = "Label"
    /\ Commit(setFor(World, v), "call")

SetChecked(v) ==
    /\ Callable /\ w.kind = "Checkbox"
    /\ Commit(Checkbox_set(World, v), "call")

SetRequired(b) ==
    /\ Callable /\ w.kind = "Checkbox"
    /\ Commit(setRequired(World, b), "call")

SetDisabled(b) ==
    /\ Callable /\ w.kind = "Checkbox"
    /\ Commit(setDisabled(World, b), "call")

\* accordion.closeItem(value), as a test calls it on the variable that the
\* `new Accordion(...)` of its beforeEach was to assign: when the constructor
\* threw there is no instance, and the call throws
CloseItem(value) ==
    /\ w.kind = "Accordion"
    /\ w.status \in {"held", "threw"}
    /\ obs.calls < MaxCount
    /\ Commit(IF Held THEN Accordion_closeItem(World, value) ELSE Throw(World), "call")

\* A user presses an arrow key while an item of a RadioGroup or Accordion
\* has the focus: the keydown event reaches the listeners of the item, then
\* of the root, then of the document
ArrowKey ==
    /\ w.kind \in {"RadioGroup", "Accordion"}
    /\ w.status \in {"held", "threw"}
    /\ Present(UserTarget(w.kind))
    /\ obs.events < MaxCount
    /\ Commit(RunHandlers(HandlersAt("document", "keydown"),
                  RunHandlers(HandlersAt("root", "keydown"),
                      RunHandlers(HandlersAt(UserTarget(w.kind), "keydown"), World))),
              "arrow")

AddCustomEventListener(event) ==
    /\ Callable
    /\ event = EventOf(w.kind)
    /\ Commit(addCustomEventListener(World, event,
                  IF w.destroyed THEN "late" ELSE "spy"), "call")

WidgetNext ==
    \/ \E kind \in Kinds : \E options \in OptionsOf(kind), markup \in MarkupOf(kind) :
          Construct(kind, options, markup)
    \/ Destroy
    \/ Click
    \/ \E target \in {"root", "trigger", "document"}, event \in {"mousedown", "keydown", "keyup"} :
          NativeEvent(target, event)
    \/ \E v \in {"id", "other"} : SetFor(v)
    \/ \E v \in CellValues : SetChecked(v)
    \/ \E b \in BOOLEAN : SetRequired(b)
    \/ \E b \in BOOLEAN : SetDisabled(b)
    \/ \E event \in WidgetEvents : AddCustomEventListener(event)
    \/ \E value \in {"one", "two"} : CloseItem(value)
    \/ ArrowKey

\* The life of a widget with repeated destroy() calls
LifecycleNext ==
    \/ \E kind \in Kinds : \E options \in OptionsOf(kind), markup \in MarkupOf(kind) :
          Construct(kind, options, markup)
    \/ Destroy
    \/ DestroyDestroyed
    \/ Click
    \/ \E v \in CellValues : SetChecked(v)
    \/ \E b \in BOOLEAN : SetDisabled(b)
    \/ \E event \in WidgetEvents : AddCustomEventListener(event)

----
\* The widget was constructed and the only thing that has happened to it
\* since is one user click
OneClick ==
    /\ obs.clicks = 1 /\ obs.calls = 0 /\ obs.events = 0
    /\ ~w.destroyed

\* The value a click on the control of a widget showing v asks for
Requested(kind, v) == IF kind \in {"RadioGroup", "Accordion"} THEN "two" ELSE Not(v)

\* C1: constructing a widget of any class and destroying it throws nothing,
\* neither from the constructor (with the init() it runs) nor from destroy()
C1_ConstructDestroyNeverThrows == ~obs.ctorThrew /\ ~obs.destroyThrew

\* C2: after destroy() no handler the widget registered through the tracked
\* helper is still attached to a DOM node, and a native event runs none
C2_NoDomListenerAfterDestroy == w.destroyed => (native = {} /\ ~obs.postRun)

\* C4: a Switch constructed with checked: false and a change callback, then
\* clicked once, still reports false and has called the callback exactly
\* once, with true
C4_SwitchControlledClick ==
    (/\ w.kind = "Switch"
     /\ w.options.prop = "false" /\ w.options.onChange /\ ~w.options.disabled
     /\ OneClick)
    => /\ Held /\ w.stateRef = "object"
       /\ getValue(wcell) = "false"
       /\ cbLog = <<"true">>

\* C5: a RadioGroup or Checkbox constructed with an explicit value and a
\* change callback, then clicked to request another value, has called the
\* callback with the requested value and its getter returns that value
C5_ControlledClickTakesRequested ==
    (/\ w.kind \in {"RadioGroup", "Checkbox"}
     /\ w.options.prop # Undefined /\ w.options.onChange /\ ~w.options.disabled
     /\ OneClick)
    => /\ Held /\ w.stateRef = "object"
       /\ cbLog = <<Requested(w.kind, w.options.prop)>>
       /\ getValue(wcell) = Requested(w.kind, w.options.prop)

C11_HubClearedOnDestroy ==
    w.destroyed =>
        /\ \A e \in WidgetEvents : ~DomHas(whub[e], "spy")
        /\ ~obs.postSpy

\* A Checkbox whose listener heard a change was destroyed, and its trigger
\* was clicked afterwards
C11_Witness ==
    /\ w.destroyed
    /\ obs.cleanupSaw.removed > 0
    /\ spy > 0
    /\ obs.postRun

\* C18: a widget constructed with neither an explicit value nor a default
\* does not fail for lack of an initial value, and an instance so
\* constructed starts uncontrolled
C18_FallbackWhenNoValueNoDefault ==
    (/\ w.status \in {"held", "threw"}
     /\ w.options.prop = Undefined /\ w.options.defaultProp = Undefined)
    => /\ ~obs.configError
       /\ (Held /\ w.stateRef = "object") => ~wcell.isControlled

ClickedTwo(kind, type) ==
    /\ w.kind = kind /\ w.options.type = type
    /\ w.markup.items = 2
    /\ w.options.prop = Undefined
    /\ w.options.defaultProp = (IF type = "multiple" THEN "[one]" ELSE "one")
    /\ OneClick

\* C22: in a single-mode accordion with item "one" open, a click on the
\* trigger of item "two" makes "two" the only open item: the value is "two",
\* its trigger is expanded, and the trigger of "one" is not expanded, with
\* its content hidden and its item marked closed
C22_SingleClickOpensOnlyThatItem ==
    ClickedTwo("Accordion", "single")
    => /\ Held /\ w.stateRef = "object"
       /\ getValue(wcell) = "two"
       /\ attrs["two.aria-expanded"] = "true"
       /\ attrs["one.aria-expanded"] = "false"
       /\ attrs["one.hidden"] = ""
       /\ attrs["one.data-state"] = "closed"

\* C23: in an accordion of type 'multiple' whose defaultValue is ['one'], a
\* click on the trigger of the closed item "two" adds "two" to the value and
\* keeps "one"
C23_MultipleClickAddsValue ==
    ClickedTwo("Accordion", "multiple")
    => /\ Held /\ w.stateRef = "object"
       /\ getValue(wcell) = "[one,two]"

\* C25: a single-mode accordion that is not collapsible and starts with an
\* open item has exactly one item open after any sequence of clicks on item
\* triggers
C25_NonCollapsibleKeepsOneOpen ==
    (/\ w.kind = "Accordion" /\ w.options.type = "single"
     /\ w.markup.items = 2
     /\ w.options.prop = Undefined /\ w.options.defaultProp = "one"
     /\ obs.clicks > 0 /\ obs.calls = 0 /\ obs.events = 0 /\ ~w.destroyed)
    => /\ Held /\ w.stateRef = "object"
       /\ getValue(wcell) \in {"one", "two"}

\* C27: after a selection in a radio group, the item whose value is
\* getValue() has aria-checked "true" and tabindex "0" and the other item
\* has aria-checked "false" and tabindex "-1"
C27_CheckedItemMatchesValue ==
    ClickedTwo("RadioGroup", Undefined)
    => /\ Held /\ w.stateRef = "object"
       /\ getValue(wcell) = "two"
       /\ attrs["two.aria-checked"] = "true" /\ attrs["two.tabindex"] = "0"
       /\ attrs["one.aria-checked"] = "false" /\ attrs["one.tabindex"] = "-1"

\* C24: a single-mode accordion constructed with only type 'single' and
\* defaultValue "one", on which closeItem("one") was called, has the value ''
C24_CloseItemClosesOpenItem ==
    (/\ w.kind = "Accordion" /\ w.options.type = "single"
     /\ w.options.prop = Undefined /\ w.options.defaultProp = "one"
     /\ w.markup.items = 2
     /\ obs.calls = 1 /\ obs.clicks = 0 /\ obs.events = 0 /\ ~w.destroyed)
    => /\ Held /\ w.stateRef = "object" /\ ~obs.lastThrew
       /\ getValue(wcell) = ""

\* C28: in a radio group and in a single-mode accordion whose value is
\* "one", one arrow-key press that moves the focus from item "one" to item
\* "two" makes "two" the value
C28_ArrowKeyCommitsFocusedItem ==
    (/\ w.kind \in {"RadioGroup", "Accordion"} /\ w.options.type # "multiple"
     /\ w.options.prop = Undefined /\ w.options.defaultProp = "one"
     /\ w.markup.items = 2
     /\ obs.arrows = 1 /\ obs.events = 1 /\ obs.calls = 0 /\ obs.clicks = 0
     /\ ~w.destroyed)
    => /\ Held /\ w.stateRef = "object"
       /\ getValue(wcell) = "two"

\* C31: destroy() on a widget that is already destroyed changes nothing;
\* over any number of destroy() calls the cleanup hook runs at most once
\* and isDestroyed() stays true
C31_DestroyIdempotent ==
    /\ obs.postDestroy # "changed"
    /\ obs.cleanupSaw.runs <= 1
    /\ (obs.cleanupSaw.ran \/ obs.postDestroy # "none") => w.destroyed

\* A Checkbox whose cleanup hook ran was destroyed a second time, and its
\* trigger was clicked after the first destroy()
C31_Witness ==
    /\ w.kind = "Checkbox" /\ w.destroyed
    /\ obs.postDestroy = "noop"
    /\ obs.cleanupSaw.runs = 1
    /\ obs.postRun

\* C32: after any sequence of clicks and calls on a constructed widget,
\* the attributes of its elements show the current value of its cell (for
\* the Checkbox: aria-checked and data-state of the trigger, hidden of the
\* indicator)
C32_AttributesReflectCell ==
    (/\ Held /\ ~w.destroyed /\ w.kind = "Checkbox" /\ w.markup.trigger
     /\ ~obs.lastThrew)
    => LET checked == getValue(wcell)
       IN  /\ attrs["trigger.aria-checked"] =
                  (IF checked = "indeterminate" THEN "mixed" ELSE checked)
           /\ attrs["trigger.data-state"] = getState(checked)
           /\ w.markup.indicator =>
                  attrs["indicator.hidden"] =
                      (IF checked \in {"indeterminate", "true"} THEN Absent ELSE "")

\* C34: on a widget whose constructor returned, no click and no other
\* native event makes a handler of the widget throw, destroyed or not
C34_NoHandlerThrows ==
    [][(Held /\ (obs'.clicks # obs.clicks \/ obs'.events # obs.events))
          => ~obs'.lastThrew]_vars

\* C35: what init() set up from the options is in effect when the
\* constructor has returned: a Checkbox created with disabled: true, on
\* which no setter was called, is disabled, holds the elements it found and
\* has ignored every click
C35_OptionsSurviveConstruction ==
    (/\ Held /\ ~w.destroyed /\ w.kind = "Checkbox"
     /\ w.options.disabled /\ obs.calls = 0)
    => /\ w.disabled
       /\ w.elements = "found"
       /\ w.stateRef = "object"
       /\ getValue(wcell) = OrElse(w.options.prop, OrElse(w.options.defaultProp, "false"))

\* C10: once destroy() was called, no call on the widget mutates an
\* attribute, dispatches a semantic event or registers a listener
C10_InertAfterDestroy == ~obs.postAttr /\ ~obs.postDispatch /\ ~obs.postReg

(***************************************************************************)
(* PART 4: the handlers of HoverCard and AlertDialog                       *)
(*                                                                         *)
(* The handlers are modelled as written, on instances that hold what the   *)
(* field initializers and the constructor body assign.  (While init()      *)
(* runs before those assignments no `new` returns such an instance, see    *)
(* C1; the handlers are reached by calling them on an object of the        *)
(* class.)  A pending timer is [id, act]: act is "open" (setValue(true)),  *)
(* "handleClose" (the 100 ms timer of handleTriggerBlur), "close"          *)
(* (setValue(false)) or "getSelection" (the 0 ms timer of                  *)
(* handleContentPointerUp).  A timer field holds an id, or 0 for null.     *)
(***************************************************************************)
Dialogs == {1, 2}

PageInit ==
    /\ hc = [openTimer |-> 0, closeTimer |-> 0, pending |-> {}, nextId |-> 0,
             open |-> FALSE, hasSelection |-> FALSE,
             isPointerDownOnContent |-> FALSE,
             superseded |-> {}, lateClose |-> FALSE]
    /\ dlg = [d \in Dialogs |-> "closed"]
    /\ body = ""
    /\ before = [d \in Dialogs |-> ""]

\* window.setTimeout: a new timer, whose id is c.nextId + 1
setTimeout(c, act) ==
    [c EXCEPT !.pending = @ \cup {[id |-> c.nextId + 1, act |-> act]},
              !.nextId = @ + 1]

clearTimeout(c, id) == [c EXCEPT !.pending = {t \in @ : t.id # id}]

\* HoverCard.clearOpenTimer
clearOpenTimer(c) ==
    IF c.openTimer # 0 THEN [clearTimeout(c, c.openTimer) EXCEPT !.openTimer = 0]
    ELSE c

\* HoverCard.clearCloseTimer
clearCloseTimer(c) ==
    IF c.closeTimer # 0 THEN [clearTimeout(c, c.closeTimer) EXCEPT !.closeTimer = 0]
    ELSE c

\* HoverCard.clearTimers
clearTimers(c) == clearCloseTimer(clearOpenTimer(c))

\* HoverCard.handleClose
handleClose(c) ==
    LET c1 == clearOpenTimer(c)
    IN  IF ~c1.hasSelection /\ ~c1.isPointerDownOnContent
        THEN [setTimeout(c1, "close") EXCEPT !.closeTimer = c1.nextId + 1]
        ELSE c1

\* HoverCard.handleTriggerEnter (a mouse, openDelay > 0)
handleTriggerEnter(c) ==
    LET c1 == [clearTimers(c) EXCEPT !.hasSelection = FALSE]
    IN  [setTimeout(c1, "open") EXCEPT !.openTimer = c1.nextId + 1]

\* HoverCard.handleTriggerFocus
handleTriggerFocus(c) == [clearTimers(c) EXCEPT !.open = TRUE]

\* HoverCard.handleTriggerBlur
handleTriggerBlur(c) ==
    [setTimeout(c, "handleClose") EXCEPT !.closeTimer = c.nextId + 1]

\* The handler HoverCard attached for the event
handle(c, event) ==
    CASE event = "trigger.pointerenter" -> handleTriggerEnter(c)
      [] event \in {"trigger.pointerleave", "content.pointerleave"} -> handleClose(c)
      [] event \in {"trigger.focus", "open()"} -> handleTriggerFocus(c)
      [] event = "close()" -> handleClose(c)
      [] event = "trigger.blur" -> handleTriggerBlur(c)
      [] event = "content.pointerenter" -> clearCloseTimer(c)
      [] event = "content.pointerdown" -> [c EXCEPT !.isPointerDownOnContent = TRUE]
      [] event = "content.pointerup" ->
            setTimeout([c EXCEPT !.isPointerDownOnContent = FALSE], "getSelection")
      [] event = "document.keydown" -> [c EXCEPT !.open = FALSE]

\* The callback of a timer; selected tells whether document.getSelection()
\* holds text when the 0 ms timer of handleContentPointerUp runs
timerCallback(c, t, selected) ==
    CASE t.act = "open" -> [c EXCEPT !.open = TRUE, !.openTimer = 0]
      [] t.act = "handleClose" -> handleClose(c)
      [] t.act = "close" -> [c EXCEPT !.open = FALSE]
      [] t.act = "getSelection" -> [c EXCEPT !.hasSelection = selected]

\* The ids of the pending timers that end in the card being closed
Closers(c) == {t.id : t \in {u \in c.pending : u.act \in {"handleClose", "close"}}}

\* A pointer or focus event reaches the hover card, or open() or close() is
\* called (the model follows the card while timer ids last).  superseded
\* holds the close timers that were still pending when the last open() or
\* pointerenter on the trigger returned.
HoverCardEvent(event) ==
    /\ PageOnly
    /\ handle(hc, event).nextId <= MaxTimers
    /\ hc' = [handle(hc, event) EXCEPT
                !.superseded = IF event \in {"open()", "trigger.pointerenter"}
                               THEN Closers(handle(hc, event))
                               ELSE @ \cap Closers(handle(hc, event))]
    /\ UNCHANGED <<dlg, body, before>>

\* A pending timer fires
TimerFires(t, selected) ==
    /\ PageOnly
    /\ t \in hc.pending
    /\ timerCallback(hc, t, selected).nextId <= MaxTimers
    /\ hc' = [timerCallback([hc EXCEPT !.pending = @ \ {t}], t, selected) EXCEPT
                !.superseded = @ \ {t.id},
                !.lateClose = @ \/ (t.act = "close" /\ t.id \in hc.superseded /\ hc.open)]
    /\ UNCHANGED <<dlg, body, before>>

\* AlertDialog.updateDisplay, as far as the page's body goes
AlertDialog_updateDisplay(isOpen) == IF isOpen THEN "hidden" ELSE ""

\* this.openState.setValue(isOpen) on dialog d: open(), close(), the trigger,
\* the action and cancel buttons, Escape.  The subscribed listener runs
\* updateDisplay when the value changed.
SetOpen(d, isOpen) ==
    /\ PageOnly
    /\ dlg[d] = (IF isOpen THEN "closed" ELSE "open")
    /\ dlg' = [dlg EXCEPT ![d] = IF isOpen THEN "open" ELSE "closed"]
    /\ body' = AlertDialog_updateDisplay(isOpen)
    /\ before' = IF isOpen THEN [before EXCEPT ![d] = body] ELSE before
    /\ UNCHANGED hc

\* destroy() on dialog d: AlertDialog.cleanup
DestroyDialog(d) ==
    /\ PageOnly
    /\ dlg[d] # "destroyed"
    /\ dlg' = [dlg EXCEPT ![d] = "destroyed"]
    /\ body' = ""
    /\ UNCHANGED <<hc, before>>

\* A script of the page writes document.body.style.overflow while no dialog
\* is open
PageStyle(overflow) ==
    /\ PageOnly
    /\ \A d \in Dialogs : dlg[d] # "open"
    /\ body # overflow
    /\ body' = overflow
    /\ UNCHANGED <<hc, dlg, before>>

PageNext ==
    \/ \E event \in {"trigger.pointerenter", "trigger.pointerleave",
                     "trigger.focus", "trigger.blur", "content.pointerenter",
                     "content.pointerleave", "content.pointerdown",
                     "content.pointerup", "document.keydown", "open()", "close()"} :
           HoverCardEvent(event)
    \/ \E id \in 1..MaxTimers, selected \in BOOLEAN,
          act \in {"open", "handleClose", "close", "getSelection"} :
           TimerFires([id |-> id, act |-> act], selected)
    \/ \E d \in Dialogs, isOpen \in BOOLEAN : SetOpen(d, isOpen)
    \/ \E d \in Dialogs : DestroyDialog(d)
    \/ \E overflow \in {"", "scroll"} : PageStyle(overflow)

Items == {"one", "two"}

\* The options: type, collapsible, and a defaultValue with no item or
\* with item "one"
AccordionInit ==
    acc \in {a \in [type : {"single", "multiple"}, collapsible : BOOLEAN,
                    open : {{}, {"one"}}, op : {"none"}, arg : {"none"},
                    before : {{}, {"one"}}, events : {<< >>}] :
                a.before = a.open}

Accordion_dispatchEvent(a, type) == [a EXCEPT !.events = Append(@, type)]

\* this.valueState.setValue(v): the subscriber of setupEventListeners
\* dispatches 'valueChange' when the cell took v as a change.  fresh: v is a
\* newly built array
valueState_setValue(a, open, fresh) ==
    IF ~fresh /\ a.open = open THEN a
    ELSE Accordion_dispatchEvent([a EXCEPT !.open = open], "valueChange")

\* Accordion.isItemOpen
isItemOpen(a, value) == value \in a.open

\* Accordion.openItem
openItem(a, value) ==
    Accordion_dispatchEvent(
        IF a.type = "single" THEN valueState_setValue(a, {value}, FALSE)
        ELSE IF value \notin a.open
             THEN valueState_setValue(a, a.open \cup {value}, TRUE)
             ELSE a,
        "itemOpen")

\* Accordion.closeItem
closeItem(a, value) ==
    Accordion_dispatchEvent(
        IF a.type = "single"
        THEN (IF a.collapsible THEN valueState_setValue(a, {}, FALSE) ELSE a)
        ELSE valueState_setValue(a, a.open \ {value}, TRUE),
        "itemClose")

\* Accordion.handleTriggerClick on the trigger of an enabled item
Accordion_handleTriggerClick(a, value) ==
    IF isItemOpen(a, value) THEN closeItem(a, value) ELSE openItem(a, value)

\* Accordion.setValue(value), or setValue([value]) in multiple mode
Accordion_setValue(a, value) ==
    valueState_setValue(a, {value}, a.type = "multiple")

\* A call of openItem, closeItem or setValue, or a click on an item's
\* trigger
AccordionCall(op, value) ==
    LET a == [acc EXCEPT !.op = op, !.arg = value, !.before = acc.open,
                         !.events = << >>]
    IN  /\ ControlsOnly
        /\ acc' = CASE op = "openItem" -> openItem(a, value)
                    [] op = "closeItem" -> closeItem(a, value)
                    [] op = "click" -> Accordion_handleTriggerClick(a, value)
                    [] op = "setValue" -> Accordion_setValue(a, value)
        /\ UNCHANGED sl

AccordionNext ==
    \E op \in {"openItem", "closeItem", "click", "setValue"}, value \in Items :
        AccordionCall(op, value)

----
(***************************************************************************)
(* The slider.  min, max and step are integers; values is the array of     *)
(* thumb values (index 0 of the code is position 1 here).  A pointer       *)
(* position is k / Grid of the track's length.  A number the code computes *)
(* as a fraction is carried as numerator and denominator.  startValues and *)
(* the valueCommit event are left out: they do not touch the values.       *)
(***************************************************************************)
Grid == 4

\* The numbers a caller passes to setValue and setValueAtIndex
SetInputs == {-5, 5, 15}

Keys == {"ArrowUp", "ArrowDown", "Home", "End", "PageUp", "PageDown"}

\* The options min, max, step and defaultValue (one thumb or two)
SliderInit ==
    sl \in [min : {0}, max : {10}, step : {1, 4},
            values : {<<0>>, <<0, 10>>},
            activeThumbIndex : {0}, isDragging : {FALSE}]

Min(a, b) == IF a < b THEN a ELSE b

Max(a, b) == IF a > b THEN a ELSE b

\* Math.round(n / d) for d > 0: the nearest integer, halves upwards
Round(n, d) == (2 * n + d) \div (2 * d)

\* Slider.snapToStep(n / d)
snapToStep(s, n, d) == s.min + Round(n - s.min * d, d * s.step) * s.step

\* Slider.updateValue(n / d, index), and the body of setValueAtIndex
updateValue(s, n, d, index) ==
    [s EXCEPT !.values[index + 1] = snapToStep(s, n, d)]

\* `this.valueState.getValue()[index] || this.min`
ValueOr(s, index) ==
    IF s.values[index + 1] = 0 THEN s.min ELSE s.values[index + 1]

\* Slider.handleTrackClick: a click at k / Grid of the track
handleTrackClick(s, k) ==
    updateValue(s, s.min * Grid + (s.max - s.min) * k, Grid, s.activeThumbIndex)

\* Slider.handlePointerMove: the pointer at k / Grid of the track's length,
\* before or past the track as well
handlePointerMove(s, k) ==
    IF ~s.isDragging THEN s
    ELSE updateValue(s, s.min * Grid + (s.max - s.min) * Max(0, Min(Grid, k)),
                     Grid, s.activeThumbIndex)

\* Slider.handleThumbKeydown
handleThumbKeydown(s, key, index) ==
    LET currentValue == ValueOr(s, index)
        newValue ==
            CASE key = "ArrowUp" -> Min(s.max, currentValue + s.step)
              [] key = "ArrowDown" -> Max(s.min, currentValue - s.step)
              [] key = "Home" -> s.min
              [] key = "End" -> s.max
              [] key = "PageUp" -> Min(s.max, currentValue + s.step * 10)
              [] key = "PageDown" -> Max(s.min, currentValue - s.step * 10)
    IN  updateValue(s, newValue, 1, index)

Thumbs == 0..(Len(sl.values) - 1)

TrackClick(k) ==
    /\ ControlsOnly
    /\ sl' = handleTrackClick(sl, k)
    /\ UNCHANGED acc

\* pointerdown on the thumb index: Slider.handleThumbPointerDown
PointerDown(index) ==
    /\ ControlsOnly
    /\ index \in Thumbs
    /\ sl' = [sl EXCEPT !.isDragging = TRUE, !.activeThumbIndex = index]
    /\ UNCHANGED acc

PointerMove(k) ==
    /\ ControlsOnly
    /\ sl' = handlePointerMove(sl, k)
    /\ UNCHANGED acc

\* pointerup on the document: Slider.handlePointerUp
PointerUp ==
    /\ ControlsOnly
    /\ sl.isDragging
    /\ sl' = [sl EXCEPT !.isDragging = FALSE]
    /\ UNCHANGED acc

\* A key pressed on the thumb index, which has the focus
Keydown(key, index) ==
    /\ ControlsOnly
    /\ index \in Thumbs
    /\ sl' = handleThumbKeydown([sl EXCEPT !.activeThumbIndex = index], key, index)
    /\ UNCHANGED acc

\* Slider.setValue(values), with an array as long as the current one
Slider_setValue(values) ==
    /\ ControlsOnly
    /\ Len(values) = Len(sl.values)
    /\ sl' = [sl EXCEPT !.values = values]
    /\ UNCHANGED acc

\* Slider.setValueAtIndex(value, index)
setValueAtIndex(value, index) ==
    /\ ControlsOnly
    /\ index \in Thumbs
    /\ sl' = updateValue(sl, value, 1, index)
    /\ UNCHANGED acc

SliderNext ==
    \/ \E k \in 0..Grid : TrackClick(k)
    \/ \E index \in {0, 1} : PointerDown(index)
    \/ \E k \in -1..(Grid + 1) : PointerMove(k)
    \/ PointerUp
    \/ \E key \in Keys, index \in {0, 1} : Keydown(key, index)
    \/ \E values \in UNION {[1..n -> SetInputs] : n \in 1..2} : Slider_setValue(values)
    \/ \E value \in SetInputs, index \in {0, 1} : setValueAtIndex(value, index)

NoSlider == [min |-> 0, max |-> 0, step |-> 1, values |-> <<0>>,
             activeThumbIndex |-> 0, isDragging |-> FALSE]

NoAccordion == [type |-> "single", collapsible |-> FALSE, open |-> {},
                op |-> "none", arg |-> "none", before |-> {}, events |-> << >>]

ControlsIdle == acc = NoAccordion /\ sl = NoSlider

InitHub ==
    /\ ControlsIdle
    /\ HubInit
    /\ cell = NoCell /\ subs = << >> /\ nextSub = 0 /\ last = NoOp
    /\ WidgetInit /\ build = "legacy"
    /\ PageInit

SpecHub == InitHub /\ [][HubNext]_vars

SpecRoundTrip == InitHub /\ [][RoundTripNext]_vars

SpecGrow == InitHub /\ [][GrowNext]_vars

\* The cell under test
InitCell == ControlsIdle /\ CellInit /\ HubInit /\ WidgetInit /\ build = "legacy" /\ PageInit

SpecCell == InitCell /\ [][CellNext]_vars

SpecReentrant == InitCell /\ [][ReentrantNext]_vars

\* The widget under test
InitWidget ==
    /\ ControlsIdle
    /\ WidgetInit
    /\ HubInit
    /\ cell = NoCell /\ subs = << >> /\ nextSub = 0 /\ last = NoOp
    /\ PageInit

SpecWidget == InitWidget /\ [][WidgetNext]_vars

SpecLifecycle == InitWidget /\ [][LifecycleNext]_vars

\* The page under test
InitPage ==
    /\ ControlsIdle
    /\ PageInit
    /\ HubInit
    /\ cell = NoCell /\ subs = << >> /\ nextSub = 0 /\ last = NoOp
    /\ WidgetInit /\ build = "legacy"

SpecPage == InitPage /\ [][PageNext]_vars

\* The accordion under test
InitAccordion ==
    /\ AccordionInit /\ sl = NoSlider
    /\ HubInit
    /\ cell = NoCell /\ subs = << >> /\ nextSub = 0 /\ last = NoOp
    /\ WidgetInit /\ build = "legacy"
    /\ PageInit

SpecAccordion == InitAccordion /\ [][AccordionNext]_vars

\* The slider under test
InitSlider ==
    /\ SliderInit /\ acc = NoAccordion
    /\ HubInit
    /\ cell = NoCell /\ subs = << >> /\ nextSub = 0 /\ last = NoOp
    /\ WidgetInit /\ build = "legacy"
    /\ PageInit

SpecSlider == InitSlider /\ [][SliderNext]_vars

====
